---- MODULE Spec2Model ----
(***************************************************************************)
(* The service-request lifecycle of the Patient application.               *)
(*                                                                         *)
(* One serviceRequests document is followed from its creation by           *)
(* createServiceRequest through the offers, the nurses' responses, the     *)
(* patient's cancellation and completion (src/lib/matching-service.ts),    *)
(* together with the FindNurse component that creates the request and      *)
(* listens to it (src/components/find-nurse.tsx).  Every `await` of the    *)
(* source on the document store is one atomic step of the model, so the    *)
(* interleavings of concurrent calls are the behaviours of the model.      *)
(*                                                                         *)
(* The matching pass findAvailableNurses (filter, score, sort) is a pure   *)
(* function of the nurses collection and of the request's constraints; it  *)
(* is modelled as an operator and explored by SpecMatch over bounded sets  *)
(* of nurse documents and constraints.  Distances are in units of 10 m,    *)
(* ratings in tenths of a star, and the weighted sum is computed exactly   *)
(* (as a fraction) before Math.round.                                      *)
(***************************************************************************)
EXTENDS Integers, Sequences, FiniteSets, TLC

\* ------------------------------------------------------------------ bounds

\* Nurse documents of the 'nurses' collection.
Nurses == {"n1", "n2"}

\* Concurrent invocations of handleNurseResponse that may be in flight.
MaxCalls == 2

\* The clock advances at most MaxTicks times, by TickMinutes each time.
MaxTicks == 2
TickMinutes == 15

\* findAvailableNurses is run at most MaxRuns times on the same arguments.
MaxRuns == 2

\* ------------------------------------------------------- program constants

\* 15 * 60 * 1000 ms, in minutes.
OfferWindow == 15

\* availableNurses.slice(0, 4)
TopK == 4

NoNurse == "none"
NoTime == -1

\* Optional fields and parameters that are undefined.
NoLocation == -1
NoRate == -1
NoRadius == -1
NoDistance == -1
NoRange == [min |-> -1, max |-> -1]
NoService == ""

\* maxDistance || 10
DefaultMaxDistance == 10

\* distance 40%, rating 30%, price 20%, specialty 10%
DistanceWeight == 40
RatingWeight == 30
PriceWeight == 20
SpecialtyWeight == 10

\* (rating / 5), with ratings in tenths
RatingScale == 50

\* getDistance(...) / 1000: metres to km; the model counts in units of 10 m
DecametresPerKm == 100

\* payment.platformFee: 5
PlatformFee == 5
NoId == "null"
RequestId == "req1"
PatientId == "p1"

\* review: not submitted
NoReview == 0
IdleReview == [pc |-> "idle", rating |-> NoReview]

\* The ratings a patient may submit.
ReviewRatings == {1, 5}

CallIds == 1 .. MaxCalls

Statuses ==
  { "creating", "finding-nurses", "pending-response", "confirmed",
    "in-progress", "completed", "cancelled", "declined" }

\* ------------------------------------------------------------------- state

VARIABLES
  request,   \* the serviceRequests document (exists = FALSE before addDoc)
  now,       \* Date.now() / Timestamp.now(), in minutes
  create,    \* the createServiceRequest invocation: pc, selectedNurses, next
  calls,     \* the handleNurseResponse invocations, by call id
  result,    \* how the handleNurseResponse call that returned last ended
  client,    \* the FindNurse component: step, serviceRequestId, error
  nurses,    \* the 'nurses' collection: nurse id -> document
  find,      \* a findAvailableNurses invocation: its arguments and result
  reviewCall \* the submitReview invocation: pc, rating

vars ==
  <<request, now, create, calls, result, client, nurses, find, reviewCall>>

\* The document before addDoc has created it.
NoRequest ==
  [ exists |-> FALSE,
    status |-> "creating",
    availableNurses |-> <<>>,
    pendingNurses |-> {},
    selectedNurseIds |-> {},
    selectedNurseId |-> NoNurse,
    offerSentAt |-> NoTime,
    responseDeadline |-> NoTime,
    platformFee |-> 0,
    nursePaymentAmount |-> 0,
    patientId |-> NoId,
    serviceDetails |-> [type |-> NoService],
    review |-> NoReview ]

\* What a caller may hand to createServiceRequest as requestInput.
Inputs == {"valid", "missing-location", "zero-duration", "invalid-date"}

IdleCreate ==
  [pc |-> "idle", input |-> "none", selectedNurses |-> <<>>, next |-> 1]

IdleCall ==
  [ pc |-> "idle", nurseId |-> NoNurse, accepted |-> FALSE,
    requestData |-> [pendingResponse |-> FALSE, afterDeadline |-> FALSE] ]

\* slice keeping the whole array.
SliceAll(s, k) == s

\* Array.prototype.slice(0, k)
Slice(s, k) == SubSeq(s, 1, IF Len(s) < k THEN Len(s) ELSE k)

Range(s) == { s[i] : i \in 1 .. Len(s) }

\* ------------------------------------------------------ findAvailableNurses

\* The documents a nurse may have stored.  decametres is the geolib distance
\* of lastLocation from the patient (NoLocation: no lastLocation), rating is in
\* tenths, specialties is rates.specialties, serviceRadius is in km.
ServiceTypes == {"general"}
OnlineDocs ==
  [ isOnline : {TRUE},
    decametres : {NoLocation, 200, 500, 1200},
    hourlyRate : {NoRate, 50, 120},
    specialties : {{}, {[name |-> "general", rate |-> 60]}},
    services : SUBSET ServiceTypes,
    rating : {0, 30, 50},
    serviceRadius : {NoRadius, 4} ]

\* Offline nurses never leave the query, whatever else they store.
OfflineDoc ==
  [ isOnline |-> FALSE, decametres |-> 200, hourlyRate |-> 50, specialties |-> {},
    services |-> ServiceTypes, rating |-> 50, serviceRadius |-> NoRadius ]

Collections == [Nurses -> OnlineDocs \cup {OfflineDoc}]

\* The arguments of findAvailableNurses: the patient's location is known,
\* maxDistance is in km.
Constraints ==
  [ maxDistance : {NoDistance, 4, 10},
    priceRange : {NoRange, [min |-> 20, max |-> 100], [min |-> 50, max |-> 50]},
    serviceType : {NoService} \cup ServiceTypes ]

\* The order in which a query returns the documents of a collection: by
\* document id.
IdOrder == <<"n1", "n2", "n3", "n4", "n5", "n6">>
DocOrder(docs) == SelectSeq(IdOrder, LAMBDA n : n \in DOMAIN docs)

Min(a, b) == IF a < b THEN a ELSE b

\* nurse.rates?.hourlyRate || 0
Rate(doc) == IF doc.hourlyRate = NoRate THEN 0 ELSE doc.hourlyRate

\* The filter without its service-type rule.
AcceptedWithoutServiceRule(doc, p) ==
  IF /\ doc.decametres # NoLocation
     /\ p.maxDistance # NoDistance
     /\ doc.decametres > p.maxDistance * DecametresPerKm
    THEN FALSE
  ELSE IF /\ p.priceRange # NoRange
          /\ (Rate(doc) < p.priceRange.min \/ Rate(doc) > p.priceRange.max)
    THEN FALSE
  ELSE TRUE

\* The filter applying the default of 10 km to an undefined maxDistance.
AcceptedDefaultMaxDistance(doc, p) ==
  IF /\ doc.decametres # NoLocation
     /\ doc.decametres >
          (IF p.maxDistance = NoDistance THEN DefaultMaxDistance
           ELSE p.maxDistance) * DecametresPerKm
    THEN FALSE
  ELSE IF /\ p.priceRange # NoRange
          /\ (Rate(doc) < p.priceRange.min \/ Rate(doc) > p.priceRange.max)
    THEN FALSE
  ELSE IF /\ p.serviceType # NoService
          /\ p.serviceType \notin doc.services
    THEN FALSE
  ELSE TRUE

\* The filter with its distance comparison reversed.
AcceptedReversedDistance(doc, p) ==
  IF /\ doc.decametres # NoLocation
     /\ p.maxDistance # NoDistance
     /\ doc.decametres < p.maxDistance * DecametresPerKm
    THEN FALSE
  ELSE IF /\ p.priceRange # NoRange
          /\ (Rate(doc) < p.priceRange.min \/ Rate(doc) > p.priceRange.max)
    THEN FALSE
  ELSE IF /\ p.serviceType # NoService
          /\ p.serviceType \notin doc.services
    THEN FALSE
  ELSE TRUE

\* The callback of nurses.filter(...): the early returns, in order.
Accepted(doc, p) ==
  IF /\ doc.decametres # NoLocation
     /\ p.maxDistance # NoDistance
     /\ doc.decametres > p.maxDistance * DecametresPerKm
    THEN FALSE
  ELSE IF /\ p.priceRange # NoRange
          /\ (Rate(doc) < p.priceRange.min \/ Rate(doc) > p.priceRange.max)
    THEN FALSE
  ELSE IF /\ p.serviceType # NoService
          /\ p.serviceType \notin doc.services
    THEN FALSE
  ELSE TRUE

\* The rating weighted by 40 instead of 30.
matchScoreHeavyRating(doc, p) ==
  LET D == DecametresPerKm * (IF p.maxDistance \in {NoDistance, 0}
                            THEN DefaultMaxDistance ELSE p.maxDistance)
      a == IF doc.decametres = NoLocation THEN D ELSE Min(doc.decametres, D)
      span == p.priceRange.max - p.priceRange.min
      den == IF p.priceRange = NoRange \/ span = 0 THEN 1 ELSE span
      b == IF p.priceRange = NoRange THEN den
           ELSE Min(Rate(doc) - p.priceRange.min, den)
      c == IF p.serviceType # NoService /\ p.serviceType \in doc.services
             THEN 1 ELSE 0
      Q == RatingScale * D * den
      N == DistanceWeight * (D - a) * RatingScale * den
           + (RatingWeight + 10) * doc.rating * D * den
           + PriceWeight * (den - b) * RatingScale * D
           + SpecialtyWeight * c * Q
  IN  (2 * N + Q) \div (2 * Q)

\* Math.round(distanceScore + ratingScore + priceScore + specialtyScore).
\* The sum is the fraction N / Q, with
\*   distanceScore  = 40 * (D - a) / D       (0 without a location)
\*   ratingScore    = 30 * rating / 50
\*   priceScore     = 20 * (den - b) / den   (0 without a price range)
\*   specialtyScore = 10 * c
\* and Math.round(x) is the floor of x + 1/2.
matchScore(doc, p) ==
  LET D == DecametresPerKm * (IF p.maxDistance \in {NoDistance, 0}
                            THEN DefaultMaxDistance ELSE p.maxDistance)
      a == IF doc.decametres = NoLocation THEN D ELSE Min(doc.decametres, D)
      span == p.priceRange.max - p.priceRange.min
      den == IF p.priceRange = NoRange \/ span = 0 THEN 1 ELSE span
      b == IF p.priceRange = NoRange THEN den
           ELSE Min(Rate(doc) - p.priceRange.min, den)
      c == IF p.serviceType # NoService /\ p.serviceType \in doc.services
             THEN 1 ELSE 0
      Q == RatingScale * D * den
      N == DistanceWeight * (D - a) * RatingScale * den
           + RatingWeight * doc.rating * D * den
           + PriceWeight * (den - b) * RatingScale * D
           + SpecialtyWeight * c * Q
  IN  (2 * N + Q) \div (2 * Q)

\* estimatedCost: rate * 1.5
estimatedCost(doc) == (Rate(doc) * 3) \div 2

\* The MatchedNurse built for a filtered nurse; distance is
\* Math.round(distance * 10) / 10, in tenths of a km.
MatchedNurse(n, doc, p) ==
  [ nurseId |-> n,
    matchScore |-> matchScore(doc, p),
    estimatedCost |-> estimatedCost(doc),
    distance |-> IF doc.decametres = NoLocation THEN 0
                 ELSE (doc.decametres + 5) \div 10,
    rating |-> doc.rating ]

\* Array.prototype.filter on a sequence of nurse ids.
RECURSIVE FilterSeq(_, _, _)
FilterSeq(ids, docs, p) ==
  IF ids = <<>> THEN <<>>
  ELSE IF docs[Head(ids)].isOnline /\ Accepted(docs[Head(ids)], p)
    THEN <<Head(ids)>> \o FilterSeq(Tail(ids), docs, p)
  ELSE FilterSeq(Tail(ids), docs, p)

\* A sort that is not stable: every second run puts x before the elements
\* that score the same.
RECURSIVE InsertByScoreUnstable(_, _)
InsertByScoreUnstable(sorted, x) ==
  IF sorted = <<>> THEN <<x>>
  ELSE IF \/ Head(sorted).matchScore > x.matchScore
          \/ Head(sorted).matchScore = x.matchScore /\ find.runs % 2 = 0
    THEN <<Head(sorted)>> \o InsertByScoreUnstable(Tail(sorted), x)
  ELSE <<x>> \o sorted

\* The place of x in a list sorted by the comparator b.matchScore -
\* a.matchScore: behind every element that does not score less.
RECURSIVE InsertByScore(_, _)
InsertByScore(sorted, x) ==
  IF sorted = <<>> THEN <<x>>
  ELSE IF Head(sorted).matchScore >= x.matchScore
    THEN <<Head(sorted)>> \o InsertByScore(Tail(sorted), x)
  ELSE <<x>> \o sorted

\* Array.prototype.sort((a, b) => b.matchScore - a.matchScore): stable.
RECURSIVE SortByScore(_)
SortByScore(list) ==
  IF list = <<>> THEN <<>>
  ELSE InsertByScore(SortByScore(SubSeq(list, 1, Len(list) - 1)), list[Len(list)])

\* findAvailableNurses: query the online nurses, filter, score, sort.
AvailableNurses(docs, p) ==
  LET filtered == FilterSeq(DocOrder(docs), docs, p)
  IN  SortByScore([ i \in 1 .. Len(filtered) |->
                      MatchedNurse(filtered[i], docs[filtered[i]], p) ])

\* The ids of a list of matched nurses.
NurseIds(list) == { list[i].nurseId : i \in 1 .. Len(list) }

\* The nurseId of each matched nurse, in the order of the list.
RankedIds(list) == [ i \in 1 .. Len(list) |-> list[i].nurseId ]

\* The patient creating the request has no preferences; the request is for
\* the one service type.
PatientPreferences == [maxDistance |-> NoDistance, priceRange |-> NoRange]
RequestedService == "general"

\* The arguments createServiceRequest passes to findAvailableNurses.
CreateArgs ==
  [ maxDistance |-> PatientPreferences.maxDistance,
    priceRange |-> PatientPreferences.priceRange,
    serviceType |-> RequestedService ]

\* The documents of the two nurses the lifecycle follows, when online.
RegisteredNurses ==
  [ n \in Nurses |->
      IF n = "n1"
        THEN [ isOnline |-> TRUE, decametres |-> 200, hourlyRate |-> 50,
               specialties |-> {}, services |-> ServiceTypes, rating |-> 50,
               serviceRadius |-> NoRadius ]
        ELSE [ isOnline |-> TRUE, decametres |-> 500, hourlyRate |-> 120,
               specialties |-> {}, services |-> ServiceTypes, rating |-> 30,
               serviceRadius |-> NoRadius ] ]

\* The collections the lifecycle runs against: each nurse online or not.
Registrations ==
  { [ n \in Nurses |-> IF n \in S THEN RegisteredNurses[n] ELSE OfflineDoc ] :
      S \in SUBSET Nurses }

\* No findAvailableNurses invocation is followed.
IdleFind ==
  [ pc |-> "none",
    args |-> [maxDistance |-> NoDistance, priceRange |-> NoRange,
              serviceType |-> NoService],
    result |-> <<>>,
    runs |-> 0 ]

Init ==
  /\ request = NoRequest
  /\ now = 0
  /\ create = IdleCreate
  /\ calls = [c \in CallIds |-> IdleCall]
  /\ result = "none"
  /\ client = [step |-> "request", serviceRequestId |-> NoId, error |-> "none"]
  /\ nurses \in Registrations
  /\ find = IdleFind
  /\ reviewCall = IdleReview

\* ------------------------------------------------------------ store writes

\* A request stored as pending-response from the start.
NewRequestPendingResponse(ranked) ==
  [ exists |-> TRUE,
    status |-> "pending-response",
    availableNurses |-> ranked,
    pendingNurses |-> {},
    selectedNurseIds |-> {},
    selectedNurseId |-> NoNurse,
    offerSentAt |-> NoTime,
    responseDeadline |-> NoTime,
    platformFee |-> PlatformFee,
    nursePaymentAmount |->
      IF ranked # <<>> THEN estimatedCost(nurses[ranked[1]]) ELSE 0,
    patientId |-> PatientId,
    serviceDetails |-> [type |-> RequestedService],
    review |-> NoReview ]

\* addDoc(collection(db, 'serviceRequests'), sanitizedRequest)
NewRequest(ranked) ==
  [ exists |-> TRUE,
    status |-> "finding-nurses",
    availableNurses |-> ranked,
    pendingNurses |-> {},
    selectedNurseIds |-> {},
    selectedNurseId |-> NoNurse,
    offerSentAt |-> NoTime,
    responseDeadline |-> NoTime,
    platformFee |-> PlatformFee,
    nursePaymentAmount |->
      IF ranked # <<>> THEN estimatedCost(nurses[ranked[1]]) ELSE 0,
    patientId |-> PatientId,
    serviceDetails |-> [type |-> RequestedService],
    review |-> NoReview ]

\* The offer overwriting pendingNurses instead of arrayUnion.
OfferWriteReplacesPending(r, n, t) ==
  [ r EXCEPT !.status = "pending-response",
             !.pendingNurses = {n},
             !.selectedNurseIds = @ \cup {n},
             !.offerSentAt = t,
             !.responseDeadline = t + OfferWindow ]

\* The updateDoc of offerServiceToNurse; its estimatedCost argument is not
\* written.
OfferWrite(r, n, t) ==
  [ r EXCEPT !.status = "pending-response",
             !.pendingNurses = @ \cup {n},
             !.selectedNurseIds = @ \cup {n},
             !.offerSentAt = t,
             !.responseDeadline = t + OfferWindow ]

\* A cancellation that also clears the candidate list.
CancelWriteClearsCandidates(r) ==
  [ r EXCEPT !.status = "cancelled", !.availableNurses = <<>> ]

\* The updateDoc of cancelServiceRequest.
CancelWrite(r) == [ r EXCEPT !.status = "cancelled" ]

\* The updateDoc of submitReview.
ReviewWrite(r, rating) == [ r EXCEPT !.review = rating ]

\* The updateDoc of completeServiceRequest.
CompleteWrite(r) == [ r EXCEPT !.status = "completed" ]

\* The accept branch without its clearing of pendingNurses.
AcceptWriteKeepsPending(r, n) ==
  [ r EXCEPT !.status = "confirmed",
             !.selectedNurseId = n ]

\* The updateDoc of the accept branch of handleNurseResponse.
AcceptWrite(r, n) ==
  [ r EXCEPT !.status = "confirmed",
             !.selectedNurseId = n,
             !.pendingNurses = {} ]

\* The decline branch clearing pendingNurses as the accept branch does.
DeclineRemoveAll(r, n) ==
  [ r EXCEPT !.pendingNurses = {},
             !.selectedNurseIds = @ \ {n} ]

\* The decline branch removing the first pending nurse, whoever declines.
DeclineRemoveFirst(r, n) ==
  IF r.pendingNurses = {} THEN r
  ELSE LET first == CHOOSE m \in r.pendingNurses : TRUE
       IN  [ r EXCEPT !.pendingNurses = @ \ {first},
                      !.selectedNurseIds = @ \ {first} ]

\* The first updateDoc of the decline branch: arrayRemove(nurseId).
DeclineRemoveWrite(r, n) ==
  [ r EXCEPT !.pendingNurses = @ \ {n},
             !.selectedNurseIds = @ \ {n} ]

\* The second updateDoc of the decline branch.
DeclinedWrite(r) == [ r EXCEPT !.status = "declined" ]

\* ------------------------------------------------- createServiceRequest

\* findAndRequestBestMatch up to its call of createServiceRequest.
findAndRequestBestMatch ==
  /\ client.step = "request"
  /\ create.pc = "idle"
  /\ client' = [client EXCEPT !.step = "waiting"]
  /\ create' = [create EXCEPT !.pc = "find", !.input = "valid"]
  /\ UNCHANGED <<request, now, calls, result, nurses, find, reviewCall>>

\* createServiceRequest from findAvailableNurses to addDoc: the nurses are
\* ranked, the top TopK are selected, the document is created.
createServiceRequest ==
  /\ create.pc = "find"
  /\ create.input \in {"valid", "zero-duration", "invalid-date"}
  /\ LET ranked == RankedIds(AvailableNurses(nurses, CreateArgs))
     IN  /\ request' = NewRequest(ranked)
         /\ create' = [create EXCEPT !.pc = "offer",
                                     !.selectedNurses = Slice(ranked, TopK),
                                     !.next = 1]
  /\ UNCHANGED <<now, calls, result, client, nurses, find, reviewCall>>

\* One iteration of the offer loop of createServiceRequest.
createOffer ==
  /\ create.pc = "offer"
  /\ create.next <= Len(create.selectedNurses)
  /\ request' = OfferWrite(request, create.selectedNurses[create.next], now)
  /\ create' = [create EXCEPT !.next = @ + 1]
  /\ UNCHANGED <<now, calls, result, client, nurses, find, reviewCall>>

\* The value the component destructures as `bestMatch` from the result of
\* createServiceRequest, which returns {requestId, selectedNurses}.
BestMatchOf(selectedNurses) == NoNurse

\* createServiceRequest returns and findAndRequestBestMatch continues.
createReturn ==
  /\ create.pc = "offer"
  /\ create.next > Len(create.selectedNurses)
  /\ create' = [create EXCEPT !.pc = "done"]
  /\ IF BestMatchOf(create.selectedNurses) = NoNurse
       THEN client' = [client EXCEPT !.step = "failed", !.error = "no-nurses"]
       ELSE client' = [client EXCEPT !.serviceRequestId = RequestId]
  /\ UNCHANGED <<request, now, calls, result, nurses, find, reviewCall>>

\* ------------------------------------------------------- single store calls

\* offerServiceToNurse called on its own for a matched nurse.
offerServiceToNurse(n) ==
  /\ request.exists
  /\ n \in Range(request.availableNurses)
  /\ request' = OfferWrite(request, n, now)
  /\ UNCHANGED <<now, create, calls, result, client, nurses, find, reviewCall>>

cancelServiceRequest ==
  /\ request.exists
  /\ request' = CancelWrite(request)
  /\ UNCHANGED <<now, create, calls, result, client, nurses, find, reviewCall>>

completeServiceRequest ==
  /\ request.exists
  /\ request' = CompleteWrite(request)
  /\ UNCHANGED <<now, create, calls, result, client, nurses, find, reviewCall>>

\* submitReview: getDoc; "Service request not found." when there is none.
submitReview(rating) ==
  /\ reviewCall.pc = "idle"
  /\ request.exists
  /\ reviewCall' = [pc |-> "update", rating |-> rating]
  /\ UNCHANGED <<request, now, create, calls, result, client, nurses, find>>

\* submitReview: updateDoc, then the call returns.
reviewUpdate ==
  /\ reviewCall.pc = "update"
  /\ request' = ReviewWrite(request, reviewCall.rating)
  /\ reviewCall' = IdleReview
  /\ UNCHANGED <<now, create, calls, result, client, nurses, find>>

\* -------------------------------------------------- handleNurseResponse

\* The call and its getDoc: "Service request not found." or the snapshot.
\* The call takes the first free slot.
handleNurseResponse(c, n, a) ==
  /\ calls[c].pc = "idle"
  /\ \A d \in CallIds : d < c => calls[d].pc # "idle"
  /\ IF request.exists
       THEN /\ calls' = [calls EXCEPT ![c] =
                 [ pc |-> "update", nurseId |-> n, accepted |-> a,
                   requestData |->
                     [ pendingResponse |-> request.status = "pending-response",
                       afterDeadline |->
                         /\ request.responseDeadline # NoTime
                         /\ now > request.responseDeadline ] ]]
            /\ UNCHANGED result
       ELSE /\ result' = "not-found"
            /\ UNCHANGED calls
  /\ UNCHANGED <<request, now, create, client, nurses, find, reviewCall>>

\* accepted: one updateDoc, then the call returns.
acceptUpdate(c) ==
  /\ calls[c].pc = "update"
  /\ calls[c].accepted
  /\ request' = AcceptWrite(request, calls[c].nurseId)
  /\ calls' = [calls EXCEPT ![c] = IdleCall]
  /\ result' = "ok"
  /\ UNCHANGED <<now, create, client, nurses, find, reviewCall>>

\* declined: the first updateDoc.
declineUpdate(c) ==
  /\ calls[c].pc = "update"
  /\ ~calls[c].accepted
  /\ request' = DeclineRemoveWrite(request, calls[c].nurseId)
  /\ calls' = [calls EXCEPT ![c].pc = "reread"]
  /\ UNCHANGED <<now, create, result, client, nurses, find, reviewCall>>

\* declined: the second getDoc; the call returns when nurses are pending.
declineReread(c) ==
  /\ calls[c].pc = "reread"
  /\ IF request.pendingNurses = {}
       THEN /\ calls' = [calls EXCEPT ![c].pc = "decline"]
            /\ UNCHANGED result
       ELSE /\ calls' = [calls EXCEPT ![c] = IdleCall]
            /\ result' = "ok"
  /\ UNCHANGED <<request, now, create, client, nurses, find, reviewCall>>

\* declined: the second updateDoc, then the call returns.
declineStatus(c) ==
  /\ calls[c].pc = "decline"
  /\ request' = DeclinedWrite(request)
  /\ calls' = [calls EXCEPT ![c] = IdleCall]
  /\ result' = "ok"
  /\ UNCHANGED <<now, create, client, nurses, find, reviewCall>>

\* --------------------------------------------------------------- the clock

Tick ==
  /\ now + TickMinutes <= MaxTicks * TickMinutes
  /\ now' = now + TickMinutes
  /\ UNCHANGED <<request, create, calls, result, client, nurses, find, reviewCall>>

\* ------------------------------------------------ the FindNurse component

\* The onSnapshot listener of the request the component holds the id of.
listener ==
  /\ client.serviceRequestId # NoId
  /\ request.exists
  /\ \/ /\ request.status = "confirmed"
        /\ client' = [client EXCEPT !.step = "confirmed"]
     \/ /\ request.status = "declined"
        /\ client' = [client EXCEPT !.step = "failed", !.error = "unavailable"]
     \/ /\ request.status = "pending-response"
        /\ request.responseDeadline # NoTime
        /\ now > request.responseDeadline
        /\ client' = [client EXCEPT !.step = "failed", !.error = "expired"]
  /\ UNCHANGED <<request, now, create, calls, result, nurses, find, reviewCall>>

\* handleCancelSearch: cancelServiceRequest, then the component resets.
handleCancelSearch ==
  /\ client.serviceRequestId # NoId
  /\ request.exists
  /\ request' = CancelWrite(request)
  /\ client' = [step |-> "request", serviceRequestId |-> NoId, error |-> "none"]
  /\ UNCHANGED <<now, create, calls, result, nurses, find, reviewCall>>

\* ---------------------------------------------------------- specifications

Next ==
  \/ findAndRequestBestMatch
  \/ createServiceRequest
  \/ createOffer
  \/ createReturn
  \/ \E n \in Nurses : offerServiceToNurse(n)
  \/ cancelServiceRequest
  \/ completeServiceRequest
  \/ \E c \in CallIds, n \in Nurses, a \in BOOLEAN : handleNurseResponse(c, n, a)
  \/ \E c \in CallIds : acceptUpdate(c)
  \/ \E c \in CallIds : declineUpdate(c)
  \/ \E c \in CallIds : declineReread(c)
  \/ \E c \in CallIds : declineStatus(c)

\* The store operations in every order, the clock standing still.
Spec == Init /\ [][Next]_vars

NextTimed ==
  \/ Next
  \/ Tick

\* The store operations in every order while time passes.
SpecTimed == Init /\ [][NextTimed]_vars

\* offerServiceToNurse for each of the selected nurses in turn, at time t.
RECURSIVE OfferAll(_, _, _)
OfferAll(r, selected, t) ==
  IF selected = <<>> THEN r
  ELSE OfferAll(OfferWrite(r, Head(selected), t), Tail(selected), t)

\* The session of a subscribed client: createServiceRequest has returned a
\* best match, findAndRequestBestMatch has stored the request id and the
\* component waits for the nurses to respond.
InitSubscribed ==
  /\ nurses \in Registrations
  /\ find = IdleFind
  /\ reviewCall = IdleReview
  /\ LET ranked == RankedIds(AvailableNurses(nurses, CreateArgs))
     IN  /\ ranked # <<>>
         /\ request = OfferAll(NewRequest(ranked), Slice(ranked, TopK), 0)
         /\ create = [pc |-> "done", input |-> "valid",
                      selectedNurses |-> Slice(ranked, TopK),
                      next |-> Len(Slice(ranked, TopK)) + 1]
  /\ now = 0
  /\ calls = [c \in CallIds |-> IdleCall]
  /\ result = "none"
  /\ client = [step |-> "waiting", serviceRequestId |-> RequestId, error |-> "none"]

NextSubscribed ==
  \/ \E c \in CallIds, n \in Nurses, a \in BOOLEAN : handleNurseResponse(c, n, a)
  \/ \E c \in CallIds : acceptUpdate(c)
  \/ \E c \in CallIds : declineUpdate(c)
  \/ \E c \in CallIds : declineReread(c)
  \/ \E c \in CallIds : declineStatus(c)
  \/ Tick
  \/ listener
  \/ handleCancelSearch

SpecSubscribed == InitSubscribed /\ [][NextSubscribed]_vars

\* The same session under fair scheduling: the clock advances, a snapshot is
\* delivered to the listener, and a response that has been submitted runs to
\* its end.  Whether a nurse responds, and whether the patient cancels, is
\* left to them.
FairSubscribed ==
  /\ WF_vars(Tick)
  /\ WF_vars(listener)
  /\ \A c \in CallIds :
       /\ WF_vars(acceptUpdate(c))
       /\ WF_vars(declineUpdate(c))
       /\ WF_vars(declineReread(c))
       /\ WF_vars(declineStatus(c))

SpecSubscribedFair == SpecSubscribed /\ FairSubscribed

\* createServiceRequest called directly, with any input.
callCreateServiceRequest(input) ==
  /\ create.pc = "idle"
  /\ create' = [create EXCEPT !.pc = "find", !.input = input]
  /\ UNCHANGED <<request, now, calls, result, client, nurses, find, reviewCall>>

\* createServiceRequest throws while it builds newRequest: the TypeError of
\* requestInput.patientLocation.latitude on a missing location; an invalid
\* date may or may not make Timestamp.fromDate or addDoc throw.
createThrows ==
  /\ create.pc = "find"
  /\ create.input \in {"missing-location", "invalid-date"}
  /\ create' = [create EXCEPT !.pc = "threw"]
  /\ UNCHANGED <<request, now, calls, result, client, nurses, find, reviewCall>>

\* addDoc rejects: createServiceRequest throws, nothing is stored.
createAddDocFails ==
  /\ create.pc = "find"
  /\ create.input \in {"valid", "zero-duration", "invalid-date"}
  /\ create' = [create EXCEPT !.pc = "threw"]
  /\ UNCHANGED <<request, now, calls, result, client, nurses, find, reviewCall>>

\* The updateDoc of an offer of the loop rejects: offerServiceToNurse and
\* createServiceRequest throw.
createOfferFails ==
  /\ create.pc = "offer"
  /\ create.next <= Len(create.selectedNurses)
  /\ create' = [create EXCEPT !.pc = "threw"]
  /\ UNCHANGED <<request, now, calls, result, client, nurses, find, reviewCall>>

\* createServiceRequest returns {requestId, selectedNurses} to its caller.
createReturnsToCaller ==
  /\ create.pc = "offer"
  /\ create.next > Len(create.selectedNurses)
  /\ create' = [create EXCEPT !.pc = "done"]
  /\ UNCHANGED <<request, now, calls, result, client, nurses, find, reviewCall>>

\* createServiceRequest as an exported operation: any caller, any input, a
\* store whose writes may fail, the clock running.
NextApi ==
  \/ \E input \in Inputs : callCreateServiceRequest(input)
  \/ createServiceRequest
  \/ createThrows
  \/ createAddDocFails
  \/ createOffer
  \/ createOfferFails
  \/ createReturnsToCaller
  \/ Tick

SpecApi == Init /\ [][NextApi]_vars

\* Every operation on the request, submitReview included, with one nurse
\* response in flight at a time.
NextReview ==
  \/ findAndRequestBestMatch
  \/ createServiceRequest
  \/ createOffer
  \/ createReturn
  \/ \E n \in Nurses : offerServiceToNurse(n)
  \/ cancelServiceRequest
  \/ completeServiceRequest
  \/ \E n \in Nurses, a \in BOOLEAN : handleNurseResponse(1, n, a)
  \/ acceptUpdate(1)
  \/ declineUpdate(1)
  \/ declineReread(1)
  \/ declineStatus(1)
  \/ \E rating \in ReviewRatings : submitReview(rating)
  \/ reviewUpdate

SpecReview == Init /\ [][NextReview]_vars

\* The patient's side of the store with the clock running: creation, offers,
\* cancellation and completion, before any nurse has answered.
NextOffers ==
  \/ findAndRequestBestMatch
  \/ createServiceRequest
  \/ createOffer
  \/ createReturn
  \/ \E n \in Nurses : offerServiceToNurse(n)
  \/ cancelServiceRequest
  \/ completeServiceRequest
  \/ Tick

SpecOffers == Init /\ [][NextOffers]_vars

\* One matching pass over any collection of nurse documents under any
\* constraints.
InitMatch ==
  /\ request = NoRequest
  /\ now = 0
  /\ create = IdleCreate
  /\ calls = [c \in CallIds |-> IdleCall]
  /\ result = "none"
  /\ client = [step |-> "request", serviceRequestId |-> NoId, error |-> "none"]
  /\ nurses \in Collections
  /\ \E p \in Constraints : find = [pc |-> "call", args |-> p, result |-> <<>>, runs |-> 0]
  /\ reviewCall = IdleReview

findAvailableNurses ==
  /\ find.pc = "call"
  /\ find' = [find EXCEPT !.pc = "done",
                          !.result = AvailableNurses(nurses, find.args),
                          !.runs = @ + 1]
  /\ UNCHANGED <<request, now, create, calls, result, client, nurses, reviewCall>>

SpecMatch == InitMatch /\ [][findAvailableNurses]_vars

\* findAvailableNurses called again with the same arguments, the collection
\* unchanged.
findAvailableNursesAgain ==
  /\ find.pc = "done"
  /\ find.runs < MaxRuns
  /\ find' = [find EXCEPT !.result = AvailableNurses(nurses, find.args),
                          !.runs = @ + 1]
  /\ UNCHANGED <<request, now, create, calls, result, client, nurses, reviewCall>>

NextRerun ==
  \/ findAvailableNurses
  \/ findAvailableNursesAgain

SpecRerun == InitMatch /\ [][NextRerun]_vars

\* Candidates of a larger collection: more nurses than one request is
\* offered to.  All are 2 km away and charge 50; their ratings differ.
Candidates == {"n1", "n2", "n3", "n4", "n5", "n6"}
CandidateRating ==
  [ n \in Candidates |->
      CASE n \in {"n1", "n3", "n6"} -> 50
        [] n \in {"n2", "n5"} -> 30
        [] OTHER -> 0 ]
CandidateCollections ==
  { [ n \in Candidates |->
        IF n \in S
          THEN [ isOnline |-> TRUE, decametres |-> 200, hourlyRate |-> 50,
                 specialties |-> {}, services |-> ServiceTypes,
                 rating |-> CandidateRating[n], serviceRadius |-> NoRadius ]
          ELSE OfflineDoc ] : S \in SUBSET Candidates }

\* createServiceRequest alone, against any of the larger collections.
InitSelect ==
  /\ request = NoRequest
  /\ now = 0
  /\ create = IdleCreate
  /\ calls = [c \in CallIds |-> IdleCall]
  /\ result = "none"
  /\ client = [step |-> "request", serviceRequestId |-> NoId, error |-> "none"]
  /\ nurses \in CandidateCollections
  /\ find = IdleFind
  /\ reviewCall = IdleReview

NextSelect ==
  \/ findAndRequestBestMatch
  \/ createServiceRequest
  \/ createOffer
  \/ createReturn

SpecSelect == InitSelect /\ [][NextSelect]_vars

\* ------------------------------------------------------------------ claims

\* The step in which the accept call c writes and returns.
AcceptStep(c) ==
  /\ calls[c].pc = "update"
  /\ calls[c].accepted
  /\ calls'[c].pc = "idle"

\* An accept call of an offered nurse that read the request while it was
\* pending-response and writes after another offered nurse was confirmed.
LateAcceptStep(c) ==
  /\ AcceptStep(c)
  /\ calls[c].requestData.pendingResponse
  /\ calls[c].nurseId \in request.selectedNurseIds
  /\ request.status = "confirmed"
  /\ request.selectedNurseId \in request.selectedNurseIds \ {calls[c].nurseId}

\* C1: the first acceptance wins: once the request is confirmed with
\* selectedNurseId = A, a concurrent acceptance by another offered nurse does
\* not replace A.
C1_FirstAcceptanceWins ==
  [][\A c \in CallIds :
       LateAcceptStep(c) => request'.selectedNurseId = request.selectedNurseId]_vars

\* C2: of two concurrent acceptances of a pending-response request, the one
\* that writes second does not end well: it ends with an error.
C2_LoserGetsStaleStateError ==
  [][\A c \in CallIds : LateAcceptStep(c) => result' # "ok"]_vars

\* The edges of the lifecycle.
LegalEdges ==
  { <<"creating", "finding-nurses">>,
    <<"finding-nurses", "pending-response">>,
    <<"pending-response", "confirmed">>,
    <<"pending-response", "declined">>,
    <<"confirmed", "in-progress">>,
    <<"in-progress", "completed">>,
    <<"confirmed", "completed">>,
    <<"finding-nurses", "cancelled">>,
    <<"pending-response", "cancelled">>,
    <<"confirmed", "cancelled">>,
    <<"in-progress", "cancelled">> }

\* C3: the status of the request only ever moves along the edges of the
\* lifecycle.
C3_OnlyLegalEdges ==
  [][request'.status # request.status
       => <<request.status, request'.status>> \in LegalEdges]_vars

\* C4: an acceptance of a request that is not pending-response is rejected
\* with an error and leaves the request as it was.
C4_AcceptOutsidePendingRejected ==
  [][\A c \in CallIds :
       (AcceptStep(c) /\ request.status # "pending-response")
         => (result' # "ok" /\ request' = request)]_vars

\* C5: a confirmed request has a selected nurse, and an acceptance by a nurse
\* who holds no offer of the request (never offered, or withdrawn by the
\* nurse's own decline) does not confirm it for that nurse.
C5_ConfirmedByOfferedNurse ==
  /\ [](request.status = "confirmed" => request.selectedNurseId # NoNurse)
  /\ [][\A c \in CallIds :
          (AcceptStep(c) /\ calls[c].nurseId \notin request.selectedNurseIds)
            => ~(request'.status = "confirmed"
                 /\ request'.selectedNurseId = calls[c].nurseId)]_vars

\* C6: in every state, the intermediate ones included, a pending-response
\* request has a pending nurse.
C6_PendingResponseHasPendingNurse ==
  request.status = "pending-response" => request.pendingNurses # {}

\* C7: an acceptance confirms the request, selects the nurse and empties
\* pendingNurses in one write: no state shows a confirmed request with a
\* pending nurse, and the step that selects a nurse also confirms the request.
C7_AcceptIsOneWrite ==
  /\ [](request.status = "confirmed" => request.pendingNurses = {})
  /\ [][\A c \in CallIds :
          AcceptStep(c)
            => /\ request'.status = "confirmed"
               /\ request'.selectedNurseId = calls[c].nurseId
               /\ request'.pendingNurses = {}]_vars
  /\ [][request'.selectedNurseId # request.selectedNurseId
          => /\ request'.status = "confirmed"
             /\ request'.pendingNurses = {}]_vars

\* A confirmed request whose acceptance cleared the offer of the other nurse.
C7_Witness ==
  /\ request.status = "confirmed"
  /\ request.selectedNurseId = "n1"
  /\ request.selectedNurseIds = {"n1", "n2"}
  /\ request.pendingNurses = {}
  /\ result = "ok"

\* C8: a decline of a pending-response request removes the nurse and only
\* that nurse from pendingNurses and keeps the status; it returns without
\* another write when the pending set it reads back is not empty, and writes
\* declined, and nothing else, when that set is empty.
C8_Decline ==
  [][\A c \in CallIds :
       /\ (calls[c].pc = "update" /\ ~calls[c].accepted /\ calls'[c].pc # "update"
            /\ request.status = "pending-response")
             => /\ request'.pendingNurses = request.pendingNurses \ {calls[c].nurseId}
                /\ request'.status = "pending-response"
                /\ calls'[c].pc = "reread"
       /\ (calls[c].pc = "reread" /\ calls'[c].pc # "reread")
             => /\ request' = request
                /\ calls'[c].pc = (IF request.pendingNurses = {} THEN "decline" ELSE "idle")
       /\ (calls[c].pc = "decline" /\ calls'[c].pc # "decline")
             => /\ request'.status = "declined"
                /\ request'.pendingNurses = request.pendingNurses
                /\ calls'[c].pc = "idle"]_vars

\* A decline of n1 has removed n1 and left n2 pending, the request still
\* pending-response.
C8_Witness ==
  \E c \in CallIds :
    /\ calls[c].pc = "reread"
    /\ calls[c].nurseId = "n1"
    /\ calls[c].requestData.pendingResponse
    /\ request.status = "pending-response"
    /\ request.pendingNurses = {"n2"}
    /\ request.selectedNurseIds = {"n2"}

Respond(r, n, a) ==
  IF a THEN AcceptWrite(r, n)
  ELSE LET removed == DeclineRemoveWrite(r, n)
       IN  IF removed.pendingNurses = {} THEN DeclinedWrite(removed) ELSE removed

OfferStep ==
  /\ request.exists
  /\ request.status \in {"finding-nurses", "pending-response"}
  /\ request' # request
  /\ request'.status = "pending-response"

\* C11: offerServiceToNurse on a finding-nurses or pending-response request
\* adds the nurse to the pending set and removes no pending nurse, sets
\* offerSentAt to the current time and responseDeadline to that time plus 15
\* minutes, and leaves the request pending-response.
C11_OfferAddsPendingNurse ==
  [][ OfferStep =>
        \E n \in Nurses :
          /\ create.next' # create.next => n = create.selectedNurses[create.next]
          /\ request'.pendingNurses = request.pendingNurses \cup {n}
          /\ request'.offerSentAt = now
          /\ request'.responseDeadline = now + 15
          /\ request'.status = "pending-response" ]_vars

\* A second nurse has been offered the request, after the clock has moved.
C11_Witness ==
  /\ request.status = "pending-response"
  /\ request.pendingNurses = Nurses
  /\ request.offerSentAt > 0
  /\ request.responseDeadline = request.offerSentAt + 15

\* C12: the offer sets payment.nursePayment.amount to the estimated cost of
\* the nurse offered, so the amount of a request confirmed by a nurse who was
\* offered it is that nurse's estimated cost.
C12_OfferSetsNursePayment ==
  /\ [][ create.pc = "offer" /\ create.next' = create.next + 1 =>
           request'.nursePaymentAmount =
             estimatedCost(nurses[create.selectedNurses[create.next]]) ]_vars
  /\ [](request.status = "confirmed"
        /\ request.selectedNurseId \in request.selectedNurseIds
          => request.nursePaymentAmount =
               estimatedCost(nurses[request.selectedNurseId]))

\* C13: cancellation is final: no step changes the status of a cancelled
\* request.
C13_CancelIsFinal ==
  [][ request.status = "cancelled" => request'.status = "cancelled" ]_vars

\* The rules of the filter, one by one.
DistanceRule(doc, p) ==
  \/ doc.decametres = NoLocation
  \/ p.maxDistance = NoDistance
  \/ doc.decametres <= p.maxDistance * 100

PriceRule(doc, p) ==
  \/ p.priceRange = NoRange
  \/ (p.priceRange.min <= Rate(doc) /\ Rate(doc) <= p.priceRange.max)

ServiceRule(doc, p) ==
  \/ p.serviceType = NoService
  \/ p.serviceType \in doc.services

\* Scenario A: rate 50 inside [20, 100], 2 km inside maxDistance 10, the
\* nurse offers the requested type.
ScenarioA(doc, p) ==
  /\ doc.isOnline
  /\ doc.hourlyRate = 50
  /\ doc.decametres = 200
  /\ p.priceRange = [min |-> 20, max |-> 100]
  /\ p.maxDistance = 10
  /\ p.serviceType = "general"
  /\ "general" \in doc.services

\* The matchScore a list gives nurse n.
ScoreOf(list, n) ==
  LET i == CHOOSE j \in 1 .. Len(list) : list[j].nurseId = n
  IN  list[i].matchScore

\* C14: the filter is a conjunction: a nurse is returned if and only if it is
\* online and passes the distance rule, the price rule and the service-type
\* rule; an offline nurse is never returned, and the online nurse of Scenario
\* A, which satisfies every rule, is returned with matchScore > 0.
C14_FilterIsConjunction ==
  find.pc = "done" =>
    \A n \in Nurses :
      /\ n \in NurseIds(find.result) <=>
           /\ nurses[n].isOnline
           /\ DistanceRule(nurses[n], find.args)
           /\ PriceRule(nurses[n], find.args)
           /\ ServiceRule(nurses[n], find.args)
      /\ ~nurses[n].isOnline => n \notin NurseIds(find.result)
      /\ ScenarioA(nurses[n], find.args) =>
           n \in NurseIds(find.result) /\ ScoreOf(find.result, n) > 0

\* Scenario A: the online nurse is the only one returned, the offline one is
\* left out.
C14_Witness ==
  /\ find.pc = "done"
  /\ ScenarioA(nurses["n1"], find.args)
  /\ ~nurses["n2"].isOnline
  /\ NurseIds(find.result) = {"n1"}
  /\ find.result[1].matchScore > 0

\* The call createServiceRequest makes for a patient without preferences:
\* maxDistance and priceRange undefined, the request's service type given.
NoPreferences(p) ==
  /\ p.maxDistance = NoDistance
  /\ p.priceRange = NoRange
  /\ p.serviceType # NoService

\* C15, as stated: for a patient without preferences the filter, as invoked
\* by createServiceRequest, excludes only offline nurses: every online nurse
\* is returned.
C15_OnlyOfflineExcluded ==
  find.pc = "done" /\ NoPreferences(find.args) =>
    NurseIds(find.result) = { n \in Nurses : nurses[n].isOnline }

\* C15, amended: for a patient without preferences the filter, as invoked by
\* createServiceRequest, excludes only offline nurses and nurses that do not
\* offer the requested service type: every online nurse that offers it is
\* returned, whatever its distance and hourly rate.
C15_OnlineOfferingServiceReturned ==
  find.pc = "done" /\ NoPreferences(find.args) =>
    NurseIds(find.result) =
      { n \in Nurses : nurses[n].isOnline
                       /\ find.args.serviceType \in nurses[n].services }

\* Without preferences a nurse 12 km away charging 120 is returned, and an
\* online nurse that does not offer the service is not.
C15_Witness ==
  /\ find.pc = "done"
  /\ NoPreferences(find.args)
  /\ nurses["n1"].isOnline
  /\ nurses["n1"].decametres = 1200
  /\ nurses["n1"].hourlyRate = 120
  /\ nurses["n2"].isOnline
  /\ find.args.serviceType \notin nurses["n2"].services
  /\ NurseIds(find.result) = {"n1"}

\* C16: a returned nurse whose position is known is no farther than the
\* smaller of the patient's maxDistance and the nurse's own serviceRadius
\* when both are defined, and no farther than the one that is defined when
\* only one is.
C16_WithinBothBounds ==
  find.pc = "done" =>
    \A n \in NurseIds(find.result) :
      nurses[n].decametres # NoLocation =>
        /\ find.args.maxDistance # NoDistance =>
             nurses[n].decametres <= find.args.maxDistance * 100
        /\ nurses[n].serviceRadius # NoRadius =>
             nurses[n].decametres <= nurses[n].serviceRadius * 100

\* The rate the price rule applies to: the rate rates.specialties lists for
\* the requested service type when the nurse lists one, else the hourly rate.
ApplicableRate(doc, serviceType) ==
  IF \E sp \in doc.specialties : sp.name = serviceType
    THEN (CHOOSE sp \in doc.specialties : sp.name = serviceType).rate
    ELSE Rate(doc)

\* C17: under a price range, a nurse that is online and passes the distance
\* and service-type rules is returned exactly when its applicable rate (the
\* specialty rate if it has one for the requested type, else the hourly rate)
\* lies in [min, max].
C17_ApplicableRateInRange ==
  find.pc = "done" /\ find.args.priceRange # NoRange =>
    \A n \in Nurses :
      /\ nurses[n].isOnline
      /\ DistanceRule(nurses[n], find.args)
      /\ ServiceRule(nurses[n], find.args)
      => ( n \in NurseIds(find.result) <=>
             /\ find.args.priceRange.min
                  <= ApplicableRate(nurses[n], find.args.serviceType)
             /\ ApplicableRate(nurses[n], find.args.serviceType)
                  <= find.args.priceRange.max )

\* q constrains at least as much as p: a smaller or newly defined
\* maxDistance, a narrower or newly defined price band, the same service type.
Stricter(q, p) ==
  /\ q.serviceType = p.serviceType
  /\ \/ p.maxDistance = NoDistance
     \/ (q.maxDistance # NoDistance /\ q.maxDistance <= p.maxDistance)
  /\ \/ p.priceRange = NoRange
     \/ /\ q.priceRange # NoRange
        /\ q.priceRange.min >= p.priceRange.min
        /\ q.priceRange.max <= p.priceRange.max

\* C18: the filter is monotone: under constraints at least as strict, the
\* nurses returned are a subset of the nurses returned before.
C18_FilterMonotone ==
  find.pc = "done" =>
    \A q \in Constraints :
      Stricter(q, find.args) =>
        NurseIds(AvailableNurses(nurses, q)) \subseteq NurseIds(find.result)

\* Both nurses are returned, and a smaller maxDistance together with a
\* narrower price band returns one of them only.
C18_Witness ==
  /\ find.pc = "done"
  /\ NurseIds(find.result) = Nurses
  /\ \E q \in Constraints :
       /\ Stricter(q, find.args)
       /\ q.maxDistance # find.args.maxDistance
       /\ q.priceRange # find.args.priceRange
       /\ Cardinality(NurseIds(AvailableNurses(nurses, q))) = 1

RankedBefore(a, b) ==
  \/ a.matchScore > b.matchScore
  \/ a.matchScore = b.matchScore /\ a.distance < b.distance
  \/ a.matchScore = b.matchScore /\ a.distance = b.distance
       /\ a.rating >= b.rating

\* C20: the list is sorted by descending matchScore, ties by ascending
\* distance, then by descending rating: of two candidates with the same score
\* the nearer one comes first.
C20_TiesByDistanceThenRating ==
  find.pc = "done" =>
    \A i, j \in 1 .. Len(find.result) :
      i < j => RankedBefore(find.result[i], find.result[j])

\* C21: createServiceRequest selects the first min(4, n) nurses of the ranked
\* list of the n eligible candidates and offers the request to each of them
\* once, in order: no candidate left out scores strictly higher than a
\* selected one, and when the loop has run (no nurse having responded) the
\* pending nurses are exactly the selected ones.
C21_TopFourSelectedAndOffered ==
  create.pc \in {"offer", "done"} =>
    LET ranked == request.availableNurses
        selected == create.selectedNurses
    IN  /\ NurseIds(AvailableNurses(nurses, CreateArgs)) = Range(ranked)
        /\ Len(selected) = Min(4, Len(ranked))
        /\ selected = SubSeq(ranked, 1, Len(selected))
        /\ \A i \in 1 .. Len(selected) : \A j \in Len(selected) + 1 .. Len(ranked) :
             matchScore(nurses[ranked[j]], CreateArgs)
               <= matchScore(nurses[selected[i]], CreateArgs)
        /\ request.pendingNurses = { selected[i] : i \in 1 .. create.next - 1 }
        /\ request.selectedNurseIds = request.pendingNurses
        /\ create.pc = "done" =>
             /\ create.next = Len(selected) + 1
             /\ request.pendingNurses = Range(selected)

\* Six candidates are eligible, four of them have been offered the request.
C21_Witness ==
  /\ create.pc = "done"
  /\ Len(request.availableNurses) = 6
  /\ Cardinality(request.pendingNurses) = 4
  /\ request.status = "pending-response"

C23_SnapshotUnchanged ==
  [][ request.exists =>
        /\ request'.availableNurses = request.availableNurses
        /\ request'.serviceDetails = request.serviceDetails
        /\ request'.patientId = request.patientId ]_vars

\* A request with two candidates that has been offered, answered, cancelled
\* and reviewed.
C23_Witness ==
  /\ request.status = "cancelled"
  /\ request.selectedNurseId # NoNurse
  /\ request.review # NoReview
  /\ Len(request.availableNurses) = 2
  /\ request.patientId = "p1"

\* No nurse of the collection passes the query and the filter.
NoNurseQualifies ==
  \A n \in DOMAIN nurses :
    ~(nurses[n].isOnline /\ Accepted(nurses[n], CreateArgs))

\* C24: when no nurse qualifies the result is empty and nothing fails:
\* findAvailableNurses returns the empty list, createServiceRequest creates
\* the request, selects nobody and sends no offer, and the request has no
\* pending nurse and is not pending-response.
C24_EmptyResultIsNoError ==
  NoNurseQualifies =>
    /\ AvailableNurses(nurses, CreateArgs) = <<>>
    /\ create.pc \in {"offer", "done"} =>
         /\ request.exists
         /\ request.availableNurses = <<>>
         /\ create.selectedNurses = <<>>
    /\ request.pendingNurses = {}
    /\ request.selectedNurseIds = {}
    /\ request.status # "pending-response"

\* createServiceRequest has returned an empty selection; the request is
\* stored as finding-nurses.
C24_Witness ==
  /\ NoNurseQualifies
  /\ create.pc = "done"
  /\ create.selectedNurses = <<>>
  /\ request.exists
  /\ request.status = "finding-nurses"
  /\ request.pendingNurses = {}

\* C25: createServiceRequest called with malformed input (no patient
\* location, a duration of zero or less, an invalid date) is rejected before
\* any side effect: no document is created and no offer is recorded.
C25_MalformedInputRejected ==
  create.input \in Inputs \ {"valid"} =>
    /\ ~request.exists
    /\ request.pendingNurses = {}
    /\ create.pc \in {"find", "threw"}

\* A step of the decline branch of call c: its first or its second write.
DeclineWriteStep(c) ==
  /\ calls[c].pc \in {"update", "decline"}
  /\ ~calls[c].accepted
  /\ calls'[c].pc # calls[c].pc

\* C26: a confirmed request is never demoted by a decline: no write of a
\* decline changes the status or the selected nurse of a confirmed request.
C26_DeclineKeepsConfirmed ==
  [][ request.status = "confirmed" /\ (\E c \in CallIds : DeclineWriteStep(c)) =>
        /\ request'.status = "confirmed"
        /\ request'.selectedNurseId = request.selectedNurseId ]_vars

ExpiredAcceptStep(c) ==
  /\ AcceptStep(c)
  /\ calls[c].requestData.afterDeadline
  /\ request.responseDeadline # NoTime
  /\ now > request.responseDeadline

C29_AllOrNothing ==
  create.pc = "threw" => ~request.exists

\* C30: the client enters the 'no available nurses' failed step only when
\* createServiceRequest selected no nurse; when it selected and offered at
\* least one, the client has stored the request id and stays waiting.
C30_FailedOnlyWhenNoneSelected ==
  create.pc = "done" =>
    IF create.selectedNurses = <<>>
      THEN client.step = "failed" /\ client.error = "no-nurses"
      ELSE client.serviceRequestId = RequestId /\ client.error # "no-nurses"


====
